---- MODULE Spec2Model ----
(***************************************************************************)
(* A model of samp (src/src/main.rs): a command-line line sampler.         *)
(* One run of main is a sequential process that moves through              *)
(*   start -> main -> open -> headers -> sample -> write -> exited         *)
(* and touches the outside world at every read of an input line, every     *)
(* write of an output line and every draw from the random generator.  The  *)
(* model takes one step per such interaction.  The environment chooses the *)
(* argument vector, the input lines, where a read fails, where a write     *)
(* fails and (for an entropy-seeded generator) every random draw.          *)
(*                                                                         *)
(* Rates are counted in units of 1/RateDen: a rate p is the integer        *)
(* p*RateDen in 0..RateDen and a uniform real u in [0,1) is an integer in  *)
(* 0..RateDen-1, so that u < p is decided exactly as the code decides it.  *)
(***************************************************************************)
EXTENDS Integers, Sequences, FiniteSets

\* ------------------------------------------------------------------ bounds
MaxLines == 4
MaxK == 3
MaxHeaders == 2
MaxSeed == 1
RateDen == 2
RngMod == 8

\* ------------------------------------------------------- program constants
ExitOk == 0
ExitFail == 1
ExitUsage == 2
ExitPanic == 101

\* Option<T>: None is the empty sequence, Some(v) the one-element sequence.
None == << >>
Some(v) == << v >>
IsSome(o) == o # << >>
Unwrap(o) == o[1]

VARIABLES
  argv,       \* the argument vector as clap sees it
  input,      \* the lines of the input source
  pc,         \* position of main
  config,     \* Config returned by parse_args (None before)
  pos,        \* lines consumed from `lines` so far
  hdone,      \* iterations of the header loop completed
  rng,        \* StdRng state (None before it is constructed)
  total,      \* enumerate() index of reservoir_sample
  reservoir,  \* Vec<String> of reservoir_sample
  sampled,    \* Vec<String> of probability_sample
  result,     \* the Vec handed to write_results, what is left to write
  out,        \* lines written to stdout
  status,     \* exit status of the process (None while it runs)
  draws,      \* history: the draws made, in order
  origin,     \* history: the input position of each line in the sampler's Vec
  fault,      \* history: the I/O fault the environment injected, if any
  run,        \* 1 for the first run, 2 for the repeated run
  first       \* outcome of the first run, once it was repeated

vars == << argv, input, pc, config, pos, hdone, rng, total, reservoir,
           sampled, result, out, status, draws, origin, fault, run, first >>

\* ------------------------------------------------------------- inputs
\* Two line contents: enough to tell lines apart and to repeat a line.
Line == { "a", "b" }

RECURSIVE SeqsUpTo(_, _)
SeqsUpTo(S, n) ==
  IF n = 0 THEN { << >> }
  ELSE LET shorter == SeqsUpTo(S, n - 1)
       IN  shorter \cup { Append(s, x) : s \in { t \in shorter : Len(t) = n - 1 }, x \in S }

Inputs == SeqsUpTo(Line, MaxLines)

\* A rate argument is text: either a number, counted in 1/RateDen units
\* (-1 stands for a negative rate, RateDen + 1 for one above 1.0), or text
\* that f64::from_str refuses.
RateArgs ==
  [ float : { TRUE }, v : -1 .. RateDen + 1 ] \cup { [ float |-> FALSE, v |-> 0 ] }

Optional(S) == { None } \cup { Some(x) : x \in S }

\* -p is absent (None), present without a value (Some(None)) or present
\* with one (Some(Some(v))).
Argvs ==
  [ n    : Optional(0 .. MaxK),
    r    : Optional(RateArgs),
    seed : Optional(0 .. MaxSeed),
    p    : Optional(Optional(0 .. MaxHeaders)) ]

Min(a, b) == IF a < b THEN a ELSE b

\* ---------------------------------------------------------- parse_args
\* The value_parser of -r: f64::from_str, then the range check.
\* Variant of rate_in_range without the upper limit.
rate_in_range_open(v) == 0 <= v

rate_in_range(v) == 0 <= v /\ v <= RateDen

rate_value_parser(s) ==
  IF ~ s.float THEN [ ok |-> FALSE, value |-> 0 ]
  ELSE IF rate_in_range(s.v) THEN [ ok |-> TRUE, value |-> s.v ]
  ELSE [ ok |-> FALSE, value |-> 0 ]

\* clap rejects the argument vector: -n together with -r (conflicts_with),
\* or a rate its value_parser refuses.
clap_rejects(a) ==
  \/ IsSome(a.n) /\ IsSome(a.r)
  \/ IsSome(a.r) /\ ~ rate_value_parser(Unwrap(a.r)).ok

\* preserve_headers: absent -> None, present without a value -> Some(1).
preserve_headers_of(a) ==
  IF ~ IsSome(a.p) THEN None
  ELSE IF IsSome(Unwrap(a.p)) THEN Unwrap(a.p) ELSE Some(1)

parse_args(a) ==
  [ sample_size      |-> a.n,
    rate             |-> IF IsSome(a.r) THEN Some(rate_value_parser(Unwrap(a.r)).value)
                         ELSE None,
    seed             |-> a.seed,
    preserve_headers |-> preserve_headers_of(a) ]

NoConfig ==
  [ sample_size |-> None, rate |-> None, seed |-> None, preserve_headers |-> None ]

\* ------------------------------------------------------------- StdRng
\* The generator is a deterministic function of its state.  A seeded
\* generator is modelled by a small linear congruential generator; one
\* seeded from entropy has an unknown state, so each of its draws is any
\* value of the range.
seed_from_u64(seed) == [ seeded |-> TRUE, s |-> seed % RngMod ]
from_entropy == [ seeded |-> FALSE, s |-> 0 ]

\* Variant of make_rng that ignores the seed.
make_rng_unseeded(seed) == from_entropy

make_rng(seed) == IF IsSome(seed) THEN seed_from_u64(Unwrap(seed)) ELSE from_entropy

rng_next(g) == IF g.seeded THEN [ g EXCEPT !.s = (5 * g.s + 3) % RngMod ] ELSE g

\* rng.gen_range(range), range = lo..=hi with lo = 0: the values the draw
\* can return.  An empty range has none (gen_range panics on it).
gen_range(g, range) ==
  IF g.seeded THEN { x \in range : x = rng_next(g).s % Cardinality(range) }
  ELSE range

\* rng.gen::<f64>(): the values the draw can return, in 1/RateDen units.
gen_f64(g) == IF g.seeded THEN { rng_next(g).s % RateDen } ELSE 0 .. (RateDen - 1)

\* ---------------------------------------------------- reservoir_sample
\* The body of the loop for one line, given the draw j (unused if t < k).
\* Variant of reservoir_push that inserts at the front.
reservoir_push_front(res, line) == << line >> \o res

reservoir_push(res, line) == Append(res, line)

\* Variant of reservoir_fills that fills at least one slot, as if k were
\* max(k, 1).
reservoir_fills_min_one(t, k) == t < (IF k < 1 THEN 1 ELSE k)

\* Variant of reservoir_fills with the comparison off by one.
reservoir_fills_le(t, k) == t <= k

reservoir_fills(t, k) == t < k

\* Variant of draw_range with an exclusive upper end, 0..total.
draw_range_exclusive(t) == 0 .. (t - 1)

\* The range of the draw for the line at index t: 0..=total.
draw_range(t) == 0 .. t

\* Variant of reservoir_replace that takes j as a 1-based index.
reservoir_replace_one_based(res, j, k, line) ==
  IF j < k THEN [ res EXCEPT ![j] = line ] ELSE res

\* Variant of reservoir_replace that pushes the line instead of storing it
\* in slot j.
reservoir_replace_push(res, j, k, line) ==
  IF j < k THEN Append(res, line) ELSE res

reservoir_replace(res, j, k, line) ==
  IF j < k THEN [ res EXCEPT ![j + 1] = line ] ELSE res

reservoir_step(res, t, k, line, j) ==
  IF reservoir_fills(t, k) THEN reservoir_push(res, line)
  ELSE reservoir_replace(res, j, k, line)

\* -------------------------------------------------- probability_sample
\* Variant of probability_keeps with u <= p.
probability_keeps_le(u, p) == u <= p

probability_keeps(u, p) == u < p

\* Variant of probability_push that inserts at the front.
probability_push_front(smp, line) == << line >> \o smp

probability_push(smp, line) == Append(smp, line)

probability_step(smp, line, u, p) ==
  IF probability_keeps(u, p) THEN probability_push(smp, line) ELSE smp

\* ---------------------------------------------------------------- Init
Init ==
  /\ argv \in Argvs
  /\ input \in Inputs
  /\ pc = "start"
  /\ config = NoConfig
  /\ pos = 0
  /\ hdone = 0
  /\ rng = None
  /\ total = 0
  /\ reservoir = << >>
  /\ sampled = << >>
  /\ result = << >>
  /\ out = << >>
  /\ status = None
  /\ draws = << >>
  /\ origin = << >>
  /\ fault = "none"
  /\ run = 1
  /\ first = None

\* ------------------------------------------------------------ helpers
\* process::exit(code), a panic, or main returning: the process is over.
Exit(code) ==
  /\ pc' = "exited"
  /\ status' = Some(code)

Running(at) == pc = at /\ status = None

\* The lines iterator has another line / is at the end of the input.
HasNext == pos < Len(input)
NextLine == input[pos + 1]

\* A draw as recorded: its kind, the upper end of its range and, for an
\* integer draw, the value drawn.
IntDraw(hi, j) == [ kind |-> "int", hi |-> hi, j |-> j ]
RealDraw == [ kind |-> "real", hi |-> 0, j |-> 0 ]

\* ------------------------------------------------------------- parse_args
\* get_matches() prints the usage error and exits with clap's status.
ParseArgsError ==
  /\ Running("start")
  /\ clap_rejects(argv)
  /\ Exit(ExitUsage)
  /\ UNCHANGED << argv, input, config, pos, hdone, rng, total, reservoir, sampled,
                  result, out, draws, fault, run, first, origin >>

ParseArgsOk ==
  /\ Running("start")
  /\ ~ clap_rejects(argv)
  /\ config' = parse_args(argv)
  /\ pc' = "main"
  /\ UNCHANGED << argv, input, pos, hdone, rng, total, reservoir, sampled, result,
                  out, status, draws, fault, run, first, origin >>

\* ------------------------------------------------------------------ main
\* Neither -n nor -r: error message, process::exit(1).
MainNoMode ==
  /\ Running("main")
  /\ ~ IsSome(config.sample_size) /\ ~ IsSome(config.rate)
  /\ Exit(ExitFail)
  /\ UNCHANGED << argv, input, config, pos, hdone, rng, total, reservoir, sampled,
                  result, out, draws, fault, run, first, origin >>

MainModeOk ==
  /\ Running("main")
  /\ IsSome(config.sample_size) \/ IsSome(config.rate)
  /\ pc' = "open"
  /\ UNCHANGED << argv, input, config, pos, hdone, rng, total, reservoir, sampled,
                  result, out, status, draws, fault, run, first, origin >>

\* The input source: File::open of a named file may fail (exit 1); stdin or
\* an opened file gives the line iterator.  Whether a file was named and
\* whether it opens is the environment's choice.
OpenFail ==
  /\ Running("open")
  /\ fault' = "open"
  /\ Exit(ExitFail)
  /\ UNCHANGED << argv, input, config, pos, hdone, rng, total, reservoir, sampled,
                  result, out, draws, run, first, origin >>

OpenOk ==
  /\ Running("open")
  /\ pc' = "headers"
  /\ UNCHANGED << argv, input, config, pos, hdone, rng, total, reservoir, sampled,
                  result, out, status, draws, fault, run, first, origin >>

\* The header loop, `for _ in 0..num_headers`, has an iteration left.
HeaderPending ==
  /\ IsSome(config.preserve_headers)
  /\ hdone < Unwrap(config.preserve_headers)

\* Some(Ok(line)) => println!("{}", line), and the write succeeds.
HeaderEmit ==
  /\ Running("headers")
  /\ HeaderPending
  /\ HasNext
  /\ out' = Append(out, NextLine)
  /\ pos' = pos + 1
  /\ hdone' = hdone + 1
  /\ UNCHANGED << argv, input, pc, config, rng, total, reservoir, sampled, result,
                  status, draws, fault, run, first, origin >>

\* Some(Ok(line)) => println!("{}", line), and the write fails: println!
\* panics on any write error, a broken pipe included.
HeaderWriteFail ==
  /\ Running("headers")
  /\ HeaderPending
  /\ HasNext
  /\ \E f \in { "pipe", "write" } : fault' = f
  /\ pos' = pos + 1
  /\ Exit(ExitPanic)
  /\ UNCHANGED << argv, input, config, hdone, rng, total, reservoir, sampled, result,
                  out, draws, run, first, origin >>

\* Some(Err(e)) => error message, process::exit(1).
HeaderReadError ==
  /\ Running("headers")
  /\ HeaderPending
  /\ fault' = "read"
  /\ Exit(ExitFail)
  /\ UNCHANGED << argv, input, config, pos, hdone, rng, total, reservoir, sampled,
                  result, out, draws, run, first, origin >>

\* Variant of HeaderEof that treats a short input as an error.
HeaderEofFails ==
  /\ Running("headers")
  /\ HeaderPending
  /\ ~ HasNext
  /\ Exit(ExitFail)
  /\ UNCHANGED << argv, input, config, pos, hdone, rng, total, reservoir, sampled,
                  result, out, draws, fault, run, first, origin >>

\* None => return Ok(()): fewer lines than headers.
HeaderEof ==
  /\ Running("headers")
  /\ HeaderPending
  /\ ~ HasNext
  /\ Exit(ExitOk)
  /\ UNCHANGED << argv, input, config, pos, hdone, rng, total, reservoir, sampled,
                  result, out, draws, fault, run, first, origin >>

\* Variant of MakeRng that hands the sampler the input from its first line.
MakeRngRewound ==
  /\ Running("headers")
  /\ ~ HeaderPending
  /\ rng' = Some(make_rng(config.seed))
  /\ pos' = 0
  /\ pc' = "sample"
  /\ UNCHANGED << argv, input, config, hdone, total, reservoir, sampled, result,
                  out, status, draws, fault, run, first, origin >>

\* The header loop is over (or there is none): construct the generator and
\* enter the sampler.
MakeRng ==
  /\ Running("headers")
  /\ ~ HeaderPending
  /\ rng' = Some(make_rng(config.seed))
  /\ pc' = "sample"
  /\ UNCHANGED << argv, input, config, pos, hdone, total, reservoir, sampled, result,
                  out, status, draws, fault, run, first, origin >>

\* ------------------------------------------------------ reservoir_sample
InReservoir == Running("sample") /\ IsSome(config.sample_size)
K == Unwrap(config.sample_size)

\* Variant of ReservoirFill that draws before it looks at total.
ReservoirFillDrawing ==
  /\ InReservoir
  /\ HasNext
  /\ reservoir_fills(total, K)
  /\ reservoir' = reservoir_step(reservoir, total, K, NextLine, 0)
  /\ origin' = reservoir_step(origin, total, K, pos + 1, 0)
  /\ \E j \in gen_range(Unwrap(rng), draw_range(total)) :
       draws' = Append(draws, IntDraw(total, j))
  /\ rng' = Some(rng_next(Unwrap(rng)))
  /\ total' = total + 1
  /\ pos' = pos + 1
  /\ UNCHANGED << argv, input, pc, config, hdone, sampled, result, out, status,
                  fault, run, first >>

\* One iteration of the loop with total < k: push, no draw.
ReservoirFill ==
  /\ InReservoir
  /\ HasNext
  /\ reservoir_fills(total, K)
  /\ reservoir' = reservoir_step(reservoir, total, K, NextLine, 0)
  /\ origin' = reservoir_step(origin, total, K, pos + 1, 0)
  /\ total' = total + 1
  /\ pos' = pos + 1
  /\ UNCHANGED << argv, input, pc, config, hdone, rng, sampled, result, out, status,
                  draws, fault, run, first >>

\* One iteration of the loop with total >= k: draw j, replace slot j if j < k.
ReservoirDraw ==
  /\ InReservoir
  /\ HasNext
  /\ ~ reservoir_fills(total, K)
  /\ \E j \in gen_range(Unwrap(rng), draw_range(total)) :
       /\ reservoir' = reservoir_step(reservoir, total, K, NextLine, j)
       /\ origin' = reservoir_step(origin, total, K, pos + 1, j)
       /\ draws' = Append(draws, IntDraw(total, j))
  /\ rng' = Some(rng_next(Unwrap(rng)))
  /\ total' = total + 1
  /\ pos' = pos + 1
  /\ UNCHANGED << argv, input, pc, config, hdone, sampled, result, out, status, fault,
                  run, first >>

\* The iterator is exhausted: Ok(reservoir) goes to write_results.
ReservoirEnd ==
  /\ InReservoir
  /\ ~ HasNext
  /\ result' = reservoir
  /\ pc' = "write"
  /\ UNCHANGED << argv, input, config, pos, hdone, rng, total, reservoir, sampled, out,
                  status, draws, fault, run, first, origin >>

\* ---------------------------------------------------- probability_sample
InProbability ==
  Running("sample") /\ ~ IsSome(config.sample_size) /\ IsSome(config.rate)
P == Unwrap(config.rate)

\* Variant of ProbabilityLine that prints a kept line as soon as it is kept.
ProbabilityLineStreaming ==
  /\ InProbability
  /\ HasNext
  /\ \E u \in gen_f64(Unwrap(rng)) :
       /\ sampled' = probability_step(sampled, NextLine, u, P)
       /\ origin' = probability_step(origin, pos + 1, u, P)
       /\ out' = IF probability_keeps(u, P) THEN Append(out, NextLine) ELSE out
  /\ rng' = Some(rng_next(Unwrap(rng)))
  /\ draws' = Append(draws, RealDraw)
  /\ pos' = pos + 1
  /\ UNCHANGED << argv, input, pc, config, hdone, total, reservoir, result, status,
                  fault, run, first >>

\* One iteration of the loop: draw u, keep the line if u < p.
ProbabilityLine ==
  /\ InProbability
  /\ HasNext
  /\ \E u \in gen_f64(Unwrap(rng)) :
       /\ sampled' = probability_step(sampled, NextLine, u, P)
       /\ origin' = probability_step(origin, pos + 1, u, P)
  /\ rng' = Some(rng_next(Unwrap(rng)))
  /\ draws' = Append(draws, RealDraw)
  /\ pos' = pos + 1
  /\ UNCHANGED << argv, input, pc, config, hdone, total, reservoir, result, out, status,
                  fault, run, first >>

ProbabilityEnd ==
  /\ InProbability
  /\ ~ HasNext
  /\ result' = sampled
  /\ pc' = "write"
  /\ UNCHANGED << argv, input, config, pos, hdone, rng, total, reservoir, sampled, out,
                  status, draws, fault, run, first, origin >>

\* Variant of SampleReadError that ends the loop on a read error instead
\* of returning it.
SampleReadErrorSkipped ==
  /\ Running("sample")
  /\ fault' = "read"
  /\ result' = IF IsSome(config.sample_size) THEN reservoir ELSE sampled
  /\ pc' = "write"
  /\ UNCHANGED << argv, input, config, pos, hdone, rng, total, reservoir, sampled,
                  out, status, draws, run, first, origin >>

\* `let line = line_result?;` in either sampler: the error is returned
\* through main, so the process ends with status 1.
SampleReadError ==
  /\ Running("sample")
  /\ fault' = "read"
  /\ Exit(ExitFail)
  /\ UNCHANGED << argv, input, config, pos, hdone, rng, total, reservoir, sampled,
                  result, out, draws, run, first, origin >>

\* --------------------------------------------------------- write_results
\* Variant of write_outcome that ends with status 0 on every write error.
write_outcome_ignored(f) == Some(ExitOk)

\* What writeln! does to the process for each outcome of the write.
write_outcome(f) ==
  IF f = "pipe" THEN Some(ExitOk)        \* BrokenPipe => process::exit(0)
  ELSE Some(ExitFail)                    \* Err(e) => return Err(e)

WriteLine ==
  /\ Running("write")
  /\ result # << >>
  /\ out' = Append(out, Head(result))
  /\ result' = Tail(result)
  /\ UNCHANGED << argv, input, pc, config, pos, hdone, rng, total, reservoir, sampled,
                  status, draws, fault, run, first, origin >>

WriteFail ==
  /\ Running("write")
  /\ result # << >>
  /\ \E f \in { "pipe", "write" } :
       /\ fault' = f
       /\ status' = write_outcome(f)
  /\ pc' = "exited"
  /\ UNCHANGED << argv, input, config, pos, hdone, rng, total, reservoir, sampled,
                  result, out, draws, run, first, origin >>

\* The loop of write_results is over: Ok(()), and main returns Ok(()).
WriteDone ==
  /\ Running("write")
  /\ result = << >>
  /\ Exit(ExitOk)
  /\ UNCHANGED << argv, input, config, pos, hdone, rng, total, reservoir, sampled,
                  result, out, draws, fault, run, first, origin >>

\* ------------------------------------------------------------ second run
\* The same command on the same input again, as the reproducibility tests
\* do: the first run's outcome is kept for comparison.
Rerun ==
  /\ pc = "exited"
  /\ run = 1
  /\ fault = "none"
  /\ status = Some(ExitOk)
  /\ first' = Some([ out |-> out, reservoir |-> reservoir, sampled |-> sampled ])
  /\ run' = 2
  /\ pc' = "start"
  /\ config' = NoConfig
  /\ pos' = 0
  /\ hdone' = 0
  /\ rng' = None
  /\ total' = 0
  /\ reservoir' = << >>
  /\ sampled' = << >>
  /\ result' = << >>
  /\ out' = << >>
  /\ status' = None
  /\ draws' = << >>
  /\ origin' = << >>
  /\ UNCHANGED << argv, input, fault >>

Next ==
  \/ ParseArgsError
  \/ ParseArgsOk
  \/ MainNoMode
  \/ MainModeOk
  \/ OpenFail
  \/ OpenOk
  \/ HeaderEmit
  \/ HeaderWriteFail
  \/ HeaderReadError
  \/ HeaderEof
  \/ MakeRng
  \/ ReservoirFill
  \/ ReservoirDraw
  \/ ReservoirEnd
  \/ ProbabilityLine
  \/ ProbabilityEnd
  \/ SampleReadError
  \/ WriteLine
  \/ WriteFail
  \/ WriteDone
  \/ Rerun

Spec == Init /\ [][Next]_vars

\* ======================================================================
\* Properties
\* ======================================================================
HeaderCount ==
  IF IsSome(config.preserve_headers) THEN Unwrap(config.preserve_headers) ELSE 0

\* The lines after the headers: the population the sampler sees.
Population == SubSeq(input, HeaderCount + 1, Len(input))

ModeN == IsSome(config.sample_size)
ModeR == ~ IsSome(config.sample_size) /\ IsSome(config.rate)

\* The sampler has returned its result to main.
SamplerReturned == pc = "write"

\* The run ended normally, with no fault injected by the environment.
CleanExit == pc = "exited" /\ fault = "none" /\ status = Some(ExitOk)

RECURSIVE IsSubseq(_, _)
IsSubseq(s, t) ==
  IF s = << >> THEN TRUE
  ELSE IF t = << >> THEN FALSE
  ELSE IF Head(s) = Head(t) THEN IsSubseq(Tail(s), Tail(t))
  ELSE IsSubseq(s, Tail(t))

C3_Deterministic ==
  (run = 2 /\ IsSome(argv.seed)) =>
     /\ SamplerReturned =>
          /\ reservoir = Unwrap(first).reservoir
          /\ sampled = Unwrap(first).sampled
     /\ CleanExit => out = Unwrap(first).out

\* C3 witness: a second seeded fixed-size run ended cleanly after draws
\* that replaced a slot.
C3_Witness ==
  /\ run = 2 /\ IsSome(argv.seed)
  /\ ModeN /\ CleanExit
  /\ draws # << >>
  /\ reservoir # SubSeq(Population, 1, K)
  /\ out = Unwrap(first).out

\* C3 witness for the probability sampler: a second seeded run that kept
\* some lines and dropped others.
C3_WitnessRate ==
  /\ run = 2 /\ IsSome(argv.seed)
  /\ ModeR /\ CleanExit
  /\ sampled # << >> /\ Len(sampled) < Len(Population)

\* C4: for every rate, input and sequence of draws the result of
\* probability_sample is a subsequence of the post-header input in the
\* input's order, and the sampled part of the output is a prefix of it.
C4_Subsequence ==
  (ModeR /\ pc \in { "sample", "write", "exited" }) =>
     /\ IsSubseq(sampled, SubSeq(input, HeaderCount + 1, pos))
     /\ Len(out) >= hdone
     /\ \E m \in 0 .. Len(sampled) :
          SubSeq(out, hdone + 1, Len(out)) = SubSeq(sampled, 1, m)

\* C4 witness: two different lines were kept and one was dropped.
C4_Witness ==
  /\ ModeR /\ SamplerReturned
  /\ Len(sampled) >= 2 /\ sampled[1] # sampled[2]
  /\ Len(sampled) < Len(Population)

\* C5: with rate 0.0 the probability sampler keeps nothing, whatever the
\* draws, and the run ends with status 0; with rate 1.0 it keeps every
\* line, in order, for every draw in [0, 1).
C5_BoundaryRates ==
  /\ (ModeR /\ P = 0) =>
       /\ sampled = << >>
       /\ (pc = "exited" /\ fault = "none") =>
            status = Some(ExitOk) /\ Len(out) = hdone
  /\ (ModeR /\ P = RateDen /\ SamplerReturned) => sampled = Population
  /\ (ModeR /\ P = RateDen /\ CleanExit /\ IsSome(rng)) => out = input

\* C5 witness, rate 0.0: a run over a nonempty population ended cleanly.
C5_WitnessZero ==
  ModeR /\ P = 0 /\ CleanExit /\ Len(draws) >= 2

\* C5 witness, rate 1.0: the sampler returned two or more lines.
C5_WitnessOne ==
  ModeR /\ P = RateDen /\ SamplerReturned /\ Len(sampled) >= 2

\* C6: with h header lines requested and n input lines: if h <= n the
\* first h output lines are the first h input lines, written before any
\* draw is made; if h > n the output is the n input lines, no draw is
\* made and the run ends with status 0.
C6_HeaderPassthrough ==
  /\ pc = "headers" => out = SubSeq(input, 1, hdone) /\ draws = << >>
  /\ (IsSome(rng) \/ draws # << >>) =>
       /\ HeaderCount <= Len(input)
       /\ hdone = HeaderCount
       /\ Len(out) >= HeaderCount
       /\ SubSeq(out, 1, HeaderCount) = SubSeq(input, 1, HeaderCount)
  /\ (pc = "exited" /\ fault = "none" /\ (ModeN \/ ModeR)
        /\ HeaderCount > Len(input)) =>
       /\ out = input
       /\ draws = << >> /\ rng = None
       /\ status = Some(ExitOk)

\* C6 witness, h <= n: a draw was made after two headers were written.
C6_WitnessEmitted ==
  HeaderCount >= 2 /\ draws # << >> /\ out[1] # out[2]

\* C6 witness, h > n: the input ended inside the header loop.
C6_WitnessShort ==
  /\ pc = "exited" /\ fault = "none" /\ (ModeN \/ ModeR)
  /\ HeaderCount > Len(input) /\ Len(out) >= 1

\* C7: a broken pipe on any output write, of a header line or of a sampled
\* line, ends the process at once with status 0.
C7_BrokenPipeIsSuccess ==
  fault = "pipe" => pc = "exited" /\ status = Some(ExitOk)

\* C7, restricted to the writes of write_results: a broken pipe there ends
\* the process with status 0 and the rest of the result stays unwritten.
C7_BrokenPipeInWriteResults ==
  (fault = "pipe" /\ IsSome(rng)) =>
     pc = "exited" /\ status = Some(ExitOk) /\ result # << >>

\* The argument vector is a configuration error: no mode, both modes, or a
\* rate that is no number or lies outside [0.0, 1.0].
ConfigurationError ==
  \/ ~ IsSome(argv.n) /\ ~ IsSome(argv.r)
  \/ IsSome(argv.n) /\ IsSome(argv.r)
  \/ /\ IsSome(argv.r)
     /\ \/ ~ Unwrap(argv.r).float
        \/ Unwrap(argv.r).v < 0
        \/ Unwrap(argv.r).v > RateDen

\* C8: a configuration error ends the run with a non-zero status before
\* any line is read, any line is written or any draw is made.
C8_ConfigurationError ==
  ConfigurationError =>
     /\ pc \in { "start", "main", "exited" }
     /\ pos = 0 /\ out = << >> /\ draws = << >> /\ rng = None
     /\ pc = "exited" => status # Some(ExitOk)

\* C8 witness: a run given a rate above 1.0 has exited.
C8_Witness ==
  /\ pc = "exited"
  /\ ~ IsSome(argv.n) /\ IsSome(argv.r)
  /\ Unwrap(argv.r).float /\ Unwrap(argv.r).v > RateDen
  /\ input # << >>

\* C8 witnesses: both modes given; no mode given.
C8_WitnessBoth == pc = "exited" /\ IsSome(argv.n) /\ IsSome(argv.r) /\ input # << >>
C8_WitnessNeither == pc = "exited" /\ ~ IsSome(argv.n) /\ ~ IsSome(argv.r) /\ input # << >>

\* ---- the fixed-size sampler as a function of the draws
\* reservoir_sample over `lines` with the draws d, d[t + 1] being the draw
\* for the line at index t (ignored while the reservoir fills).
RECURSIVE reservoir_from(_, _, _, _, _)
reservoir_from(res, t, lines, k, d) ==
  IF t >= Len(lines) THEN res
  ELSE reservoir_from(reservoir_step(res, t, k, lines[t + 1], d[t + 1]),
                      t + 1, lines, k, d)

reservoir_of(lines, k, d) == reservoir_from(<< >>, 0, lines, k, d)

\* Every sequence of draws of a run over n lines; where no draw is made the
\* entry is 0.
DrawSeqs(k, n) ==
  [ t \in 0 .. (n - 1) |->
      IF reservoir_fills(t, k) THEN { 0 } ELSE gen_range(from_entropy, draw_range(t)) ]

RECURSIVE Product(_, _)
Product(F, n) ==
  IF n = 0 THEN { << >> }
  ELSE { Append(s, x) : s \in Product(F, n - 1), x \in F[n - 1] }

AllDraws(k, n) == Product(DrawSeqs(k, n), n)

Positions(n) == [ i \in 1 .. n |-> i ]
Range(f) == { f[i] : i \in DOMAIN f }

\* The number of draw sequences after which the reservoir holds exactly
\* the lines at the positions S.
Ways(S, k, n) ==
  Cardinality({ d \in AllDraws(k, n) : Range(reservoir_of(Positions(n), k, d)) = S })

\* The draws the run made, one entry per line of the population (0 where
\* no draw was made).
DrawsTaken ==
  [ t \in 1 .. total |-> IF reservoir_fills(t - 1, K) THEN 0 ELSE draws[t - K].j ]

\* Every draw of the run was the greatest value of its range: one run for
\* each input and k.
AllMissed ==
  \A i \in 1 .. Len(draws) : \A x \in draw_range(draws[i].hi) : x <= draws[i].j

\* C9: for n > k, with each draw uniform over its range, every set of k
\* input positions is the final content of the reservoir for the same
\* number of draw sequences, namely an equal share of all of them (counted
\* once for each input and k, when the sampler returns); the reservoir a
\* run returns is the one its own draws give.
C9_Uniform ==
  (ModeN /\ SamplerReturned /\ Len(Population) > K) =>
     LET n == Len(Population)
         subsets == { S \in SUBSET (1 .. n) : Cardinality(S) = K }
         all == Cardinality(AllDraws(K, n))
     IN  /\ (AllMissed /\ result = reservoir) =>
              \A S \in subsets : Ways(S, K, n) * Cardinality(subsets) = all
         /\ \A t \in 1 .. n : DrawsTaken[t] \in DrawSeqs(K, n)[t - 1]
         /\ reservoir_of(Population, K, DrawsTaken) = reservoir

\* C9 witness: the sampler returned with k = 2 and n = 4 after draws that
\* were each the greatest of its range; the count is taken there.
C9_Witness ==
  /\ ModeN /\ SamplerReturned /\ result = reservoir
  /\ K = 2 /\ Len(Population) = 4
  /\ AllMissed

\* C9 witness: the sampler returned with k = 2 and n = 4 after a draw
\* replaced a slot.
C9_WitnessReplaced ==
  /\ ModeN /\ SamplerReturned
  /\ K = 2 /\ Len(Population) = 4
  /\ reservoir # SubSeq(Population, 1, K)

\* C10: a read failure, in the header loop or in a sampler, ends the run
\* with a non-zero status, and the header lines written before it are the
\* output.
C10_ReadFailure ==
  fault = "read" =>
     /\ pc = "exited"
     /\ status # None /\ status # Some(ExitOk)
     /\ out = SubSeq(input, 1, hdone)

\* C10 witness: a read failed in a sampler after a header was written and
\* a line was sampled.
C10_Witness ==
  /\ fault = "read" /\ IsSome(rng)
  /\ hdone >= 1 /\ pos > hdone

\* C10 witness: a read failed in the header loop after a header was written.
C10_WitnessHeader ==
  fault = "read" /\ rng = None /\ hdone >= 1 /\ out # << >>

\* C11 as stated: in probability mode a kept line is written before the
\* end of the input is reached, so the lines kept before a read failure
\* are in the output.
C11_Incremental ==
  (ModeR /\ (pc = "sample" \/ (fault = "read" /\ IsSome(rng)))) =>
     SubSeq(out, hdone + 1, Len(out)) = sampled

\* C11 amended: in probability mode the kept lines are held in memory and
\* written only after the end of the input was reached; while the sampler
\* reads, and after a read failure in it, the output holds the header
\* lines alone, whatever was kept.
C11_Buffered ==
  ModeR =>
     /\ Len(out) > hdone => pc \in { "write", "exited" } /\ pos = Len(input)
     /\ (pc = "sample" \/ fault = "read") => out = SubSeq(input, 1, hdone)
     /\ pc = "write" => SubSeq(out, hdone + 1, Len(out)) \o result = sampled

\* C11 witness: a read failed after the probability sampler had kept a
\* line; the line is not in the output.
C11_Witness ==
  /\ ModeR /\ fault = "read" /\ pc = "exited"
  /\ sampled # << >>
  /\ hdone >= 1 /\ Len(out) = hdone

\* C12: while reservoir_sample processes lines the reservoir holds
\* min(k, lines seen) lines, so never more than k, and exactly k from the
\* k-th line on.
C12_ReservoirSize ==
  (ModeN /\ IsSome(rng)) =>
     /\ total = pos - hdone
     /\ Len(reservoir) = Min(K, total)
     /\ Len(reservoir) <= K
     /\ total >= K => Len(reservoir) = K

\* C12 witness: the sampler is in its loop, has seen more than k >= 1
\* lines, and a draw has replaced a slot.
C12_Witness ==
  /\ ModeN /\ pc = "sample"
  /\ K >= 1 /\ total > K /\ HasNext
  /\ \E i \in 1 .. Len(draws) : draws[i].j < K

\* The value of the draw made for the line at index i >= k of the
\* population, and the index of the line that slot s holds at the end: the
\* last line whose draw was s, or line s itself if no draw was s.
DrawAt(i) == draws[i - K + 1].j

LastInto(s, n) ==
  LET winners == { i \in K .. (n - 1) : DrawAt(i) = s }
  IN  IF winners = { } THEN s
      ELSE CHOOSE i \in winners : \A w \in winners : w <= i

\* C13: when reservoir_sample returns with n > k, slot j holds the line at
\* the greatest index i >= k whose draw was j, or line j if no draw was j;
\* write_results prints the slots in index order 0..k-1.
C13_SlotOrder ==
  (ModeN /\ Len(Population) > K) =>
     /\ SamplerReturned =>
          /\ Len(draws) = Len(Population) - K
          /\ \A s \in 0 .. (K - 1) :
               /\ reservoir[s + 1] = Population[LastInto(s, Len(Population)) + 1]
               /\ origin[s + 1] = HeaderCount + LastInto(s, Len(Population)) + 1
          /\ SubSeq(out, hdone + 1, Len(out)) \o result = reservoir
     /\ (CleanExit /\ IsSome(rng)) => out = SubSeq(input, 1, hdone) \o reservoir

\* C13 witness: a clean run printed two slots whose lines are not in input
\* order: slot 0 holds a later line than slot 1.
C13_Witness ==
  /\ ModeN /\ CleanExit /\ IsSome(rng)
  /\ K >= 2 /\ Len(Population) > K
  /\ origin[1] > origin[2]
  /\ reservoir[1] # reservoir[2]
  /\ Len(out) = hdone + K

\* C14 as stated: with k = 0 the fixed-size sampler yields an empty
\* result, writes no slot and makes no draw.
C14_NoDraws ==
  (ModeN /\ K = 0) =>
     reservoir = << >> /\ origin = << >> /\ draws = << >>

\* C14 amended: with k = 0 the fixed-size sampler yields an empty result
\* and writes or indexes no slot, and it makes one draw for every
\* post-header line, the draw for line i over 0..i; no draw is below k.
C14_EmptyResult ==
  (ModeN /\ K = 0 /\ IsSome(rng)) =>
     /\ reservoir = << >> /\ origin = << >> /\ result = << >>
     /\ Len(draws) = total
     /\ \A i \in 1 .. Len(draws) : draws[i].hi = i - 1 /\ draws[i].j >= K
     /\ SamplerReturned => Len(draws) = Len(Population)
     /\ out = SubSeq(input, 1, hdone)
     /\ (pc = "exited" /\ fault = "none") => status = Some(ExitOk)

\* C14 witness: a run with k = 0 over two or more post-header lines ended.
C14_Witness ==
  /\ ModeN /\ K = 0 /\ CleanExit
  /\ Len(Population) >= 2 /\ Len(draws) = Len(Population)

Max(a, b) == IF a > b THEN a ELSE b

\* The draws made so far are those the mode and the number of lines read
\* by the sampler determine.
C15_DrawsDetermined ==
  /\ rng = None => draws = << >>
  /\ (ModeN /\ IsSome(rng)) =>
       /\ Len(draws) = Max(0, total - K)
       /\ \A i \in 1 .. Len(draws) :
            draws[i].kind = "int" /\ draws[i].hi = K + i - 1
       /\ SamplerReturned => Len(draws) = Max(0, Len(Population) - K)
  /\ (ModeR /\ IsSome(rng)) =>
       /\ Len(draws) = pos - hdone
       /\ \A i \in 1 .. Len(draws) : draws[i].kind = "real"
       /\ SamplerReturned => Len(draws) = Len(Population)

\* The slots of the sampler's Vec that a step wrote.
Written(old, new) ==
  { i \in 1 .. Max(Len(old), Len(new)) :
      i > Len(old) \/ i > Len(new) \/ old[i] # new[i] }

\* A step of a run reads at most one line, and makes at most one draw and
\* at most one memory write, and those only if it reads a line.
C15_OnePerLine ==
  (run' = run) =>
     /\ pos' - pos \in { 0, 1 }
     /\ Len(draws') - Len(draws) \in { 0, 1 }
     /\ Len(draws') - Len(draws) <= pos' - pos
     /\ Cardinality(Written(origin, origin')) <= pos' - pos
     /\ pc = "headers" => draws' = draws

\* C15: the draws depend only on the mode and the number of lines: no
\* draw for a header line; reservoir_sample makes max(0, n - k) draws, one
\* per index i in k..n-1 over 0..i, in increasing i; probability_sample
\* makes n draws of a real, one per line; each line read brings at most
\* one draw and at most one memory write.
C15_DrawSequence == [] C15_DrawsDetermined /\ [][C15_OnePerLine]_vars

\* C15 witness: a fixed-size run with a header line and k >= 1 made two
\* draws with different results.
C15_Witness ==
  /\ ModeN /\ SamplerReturned
  /\ hdone >= 1 /\ K >= 1 /\ Len(draws) >= 2
  /\ draws[1].j < K /\ draws[2].j >= K

\* C15 witness: a probability run with a header line drew once per line.
C15_WitnessRate ==
  ModeR /\ SamplerReturned /\ hdone >= 1 /\ Len(draws) >= 2

Distinct(f) == \A i \in DOMAIN f, j \in DOMAIN f : i # j => f[i] # f[j]

\* C16: in every state of a fixed-size run the slots hold lines of
\* pairwise different input positions, each a post-header position
\* already read; in either mode no header line is in the sampler's Vec or
\* in the sampled part of the output.
C16_DistinctPositions ==
  IsSome(rng) =>
     LET vec == IF ModeN THEN reservoir ELSE sampled
     IN  /\ Len(origin) = Len(vec)
         /\ \A i \in 1 .. Len(origin) :
              /\ origin[i] > HeaderCount /\ origin[i] <= pos
              /\ vec[i] = input[origin[i]]
         /\ Distinct(origin)
         /\ ModeR => \A i \in 1 .. (Len(origin) - 1) : origin[i] < origin[i + 1]
         /\ Len(out) >= hdone
         /\ Len(out) - hdone <= Len(vec)
         /\ SubSeq(out, hdone + 1, Len(out)) = SubSeq(vec, 1, Len(out) - hdone)

\* C16 witness: after a header line, two slots hold equal text taken from
\* two different positions, one of them put there by a draw.
C16_Witness ==
  /\ ModeN /\ pc = "sample" /\ hdone >= 1
  /\ K >= 2 /\ total > K
  /\ reservoir[1] = reservoir[2]
  /\ origin[1] > hdone + K

\* C17: a write fault that is no broken pipe, on whichever output line,
\* ends the run with a non-zero status; nothing is written after it.
C17_WriteFaultFatal ==
  fault = "write" =>
     /\ pc = "exited"
     /\ status # None /\ status # Some(ExitOk)
     /\ IsSome(rng) => SubSeq(out, hdone + 1, Len(out)) \o result
                          = (IF ModeN THEN reservoir ELSE sampled)
                        /\ result # << >>
     /\ rng = None => out = SubSeq(input, 1, hdone)

\* C17 witness: a write in write_results failed after a sampled line was
\* written.
C17_Witness ==
  fault = "write" /\ IsSome(rng) /\ Len(out) > hdone /\ hdone >= 1

\* C17 witness: the write of a header line failed.
C17_WitnessHeader ==
  fault = "write" /\ rng = None /\ status = Some(ExitPanic)

====
